---- MODULE Spec2Model ----
(***************************************************************************)
(* Books catalog (FastAPI + SQLAlchemy): the list-query engine of          *)
(* BookRepository / GenreRepository with its service-level wrappers, the   *)
(* genre-name uniqueness guard of GenreService, and the book writes of     *)
(* BookService (create_book, update_book, delete_book) with their link     *)
(* tables.                                                                 *)
(*                                                                         *)
(* The relational store is modelled by its committed tables (books,        *)
(* genres, contributors, bookGenres, bookContributors).  A request runs on *)
(* its own session (get_db): the rows it flushes live in that session's    *)
(* transaction and are discarded when the session is closed, because no    *)
(* code path commits.                                                      *)
(*                                                                         *)
(* Strings are sequences of one-character strings, optional values are     *)
(* None = <<>> or Some(v) = <<v>>, ratings are DECIMAL(3,1) in tenths.      *)
(***************************************************************************)
EXTENDS Integers, Sequences, FiniteSets, TLC

(***************************************************************************)
(* Bounds of the model                                                     *)
(***************************************************************************)
MaxBooks == 2       \* book ids are 1..MaxBooks
MaxGenres == 2      \* genre ids are 1..MaxGenres
MaxPage == 3        \* page numbers tried are 0..MaxPage
NumRequests == 2    \* concurrent write requests (sessions)
MaxContributors == 1    \* contributor ids are 1..MaxContributors

(***************************************************************************)
(* Program constants                                                       *)
(***************************************************************************)
MinPage == 1            \* if page < 1: page = 1
MinPageSize == 1        \* if page_size < 1 or page_size > 100
MaxPageSize == 100
DefaultPageSize == 10   \* page_size = 10

None == <<>>
Some(v) == <<v>>
Val(o) == o[1]

BookIds == 1..MaxBooks
GenreIds == 1..MaxGenres
NoSuchGenre == MaxGenres + 1    \* a well-formed UUID that no genre row has
Requests == 1..NumRequests

(***************************************************************************)
(* Strings                                                                 *)
(***************************************************************************)
Lower(c) == IF c = "A" THEN "a" ELSE IF c = "B" THEN "b" ELSE c
Code(c) == CASE c = "A" -> 65 [] c = "B" -> 66 [] c = "a" -> 97 [] c = "b" -> 98

LowerStr(s) == [i \in 1..Len(s) |-> Lower(s[i])]

Contains(s, t) ==
    \E i \in 0..(Len(s) - Len(t)) : SubSeq(s, i + 1, i + Len(t)) = t

\* column.ilike(f"%{q}%"): case-insensitive, unanchored substring match
ILike(s, q) == Contains(LowerStr(s), LowerStr(q))

\* the store's native string order (binary collation): s sorts before t
StrLess(s, t) ==
    \E i \in 1..Len(t) :
        /\ \A j \in 1..(i - 1) : j <= Len(s) /\ s[j] = t[j]
        /\ i - 1 <= Len(s)
        /\ (i > Len(s) \/ Code(s[i]) < Code(t[i]))

\* nullable column in ORDER BY ... ASC: NULL sorts after every value
OptLess(x, y) == x # None /\ (y = None \/ Val(x) < Val(y))

(***************************************************************************)
(* Value sets of the rows and of the request parameters                    *)
(***************************************************************************)
Titles == {<<"a">>, <<"A", "b">>}
Ratings == {None, Some(0), Some(50)}
Years == {None, Some(2000)}
GenreNames == {<<"a">>, <<"A">>, <<"a", "b">>}

BookRow == [title : Titles, rating : Ratings, published_year : Years]

SortFieldValues == {"title", "rating", "published_year"}   \* enum SortField
SortOrderValues == {"asc", "desc"}                          \* enum SortOrder

VARIABLES
    books,        \* table books: id -> row, over the ids that exist
    genres,       \* table genres: id -> name, over the ids that exist
    bookGenres,   \* table books_genres: set of <<book_id, genre_id>>
    contributors, \* table contributors: id -> full_name
    bookContributors, \* table books_contributors: set of <<book_id, contributor_id, role>>
    call,         \* list request in flight: its entry point and arguments
    resp,         \* what that request returned
    enum,         \* a client walking the pages 1..ceil(total/page_size)
    pc,           \* per write request: "idle", "open" (session) or "done"
    tx,           \* per write request: the genres table as its session sees it
    btx,          \* per write request: the book and link tables as its session sees them
    op,           \* per write request: the service call it made
    out           \* per write request: what the call returned or raised

vars == <<books, genres, bookGenres, contributors, bookContributors,
          call, resp, enum, pc, tx, btx, op, out>>
store == <<books, genres, bookGenres, contributors, bookContributors>>
listVars == <<call, resp, enum>>
writeVars == <<pc, tx, btx, op, out>>

(***************************************************************************)
(* BookRepository.get_books_list                                           *)
(***************************************************************************)
\* Python truthiness of the optional arguments tested with a bare `if x:`
TruthyStr(q) == q # None /\ Val(q) # <<>>
TruthyInt(y) == y # None /\ Val(y) # 0
TruthyId(g) == g # None

\* select(Book), joined through books_genres to genres when genre_id is given:
\* one result row per book, or one per (book, link, genre) triple of the join
JoinedRows(p) ==
    IF TruthyId(p.genre_id)
    THEN {[book |-> l[1], link |-> Some(l)] :
             l \in {m \in bookGenres : m[1] \in DOMAIN books /\ m[2] \in DOMAIN genres}}
    ELSE {[book |-> b, link |-> None] : b \in DOMAIN books}

\* and_(*conditions); a comparison with a NULL column is not true
MutConditionsTruthyRating(row, p) ==
    LET b == books[row.book] IN
    /\ TruthyStr(p.q) => ILike(b.title, Val(p.q))
    /\ TruthyId(p.genre_id) => Val(row.link)[2] = Val(p.genre_id)
    /\ TruthyInt(p.published_year) => b.published_year = p.published_year
    /\ TruthyInt(p.rating_min) => (b.rating # None /\ Val(b.rating) >= Val(p.rating_min))
    /\ TruthyInt(p.rating_max) => (b.rating # None /\ Val(b.rating) <= Val(p.rating_max))
MutConditionsNoGenre(row, p) ==
    LET b == books[row.book] IN
    /\ TruthyStr(p.q) => ILike(b.title, Val(p.q))
    /\ TruthyInt(p.published_year) => b.published_year = p.published_year
    /\ p.rating_min # None => (b.rating # None /\ Val(b.rating) >= Val(p.rating_min))
    /\ p.rating_max # None => (b.rating # None /\ Val(b.rating) <= Val(p.rating_max))
Conditions(row, p) ==
    LET b == books[row.book] IN
    /\ TruthyStr(p.q) => ILike(b.title, Val(p.q))
    /\ TruthyId(p.genre_id) => Val(row.link)[2] = Val(p.genre_id)
    /\ TruthyInt(p.published_year) => b.published_year = p.published_year
    /\ p.rating_min # None => (b.rating # None /\ Val(b.rating) >= Val(p.rating_min))
    /\ p.rating_max # None => (b.rating # None /\ Val(b.rating) <= Val(p.rating_max))

\* query.where(and_(*conditions)): the rows of the filtered, unpaginated query
FilteredRows(p) == {row \in JoinedRows(p) : Conditions(row, p)}

\* try: SortField(sort) except ValueError: SortField.TITLE
MutParseSortFieldRating(sort) == IF sort \in SortFieldValues THEN sort ELSE "rating"
ParseSortField(sort) == IF sort \in SortFieldValues THEN sort ELSE "title"

\* try: SortOrder(order) except ValueError: SortOrder.ASC
ParseSortOrder(order) == IF order \in SortOrderValues THEN order ELSE "asc"

\* the if/elif chain choosing sort_column: row r1 sorts strictly before r2
ColumnLess(field, r1, r2) ==
    LET b1 == books[r1.book]
        b2 == books[r2.book]
    IN  CASE field = "title" -> StrLess(b1.title, b2.title)
          [] field = "rating" -> OptLess(b1.rating, b2.rating)
          [] field = "published_year" -> OptLess(b1.published_year, b2.published_year)
          [] OTHER -> StrLess(b1.title, b2.title)

\* order_by(sort_column.desc()) or order_by(sort_column.asc())
Before(field, order, r1, r2) ==
    IF order = "desc" THEN ColumnLess(field, r2, r1) ELSE ColumnLess(field, r1, r2)

Perms(S) ==
    {s \in [1..Cardinality(S) -> S] : \A i, j \in 1..Cardinality(S) : i # j => s[i] # s[j]}

\* every row order the store may produce for ORDER BY on one column: rows
\* that compare equal on that column come out in any order, chosen per query
OrderedRows(rows, field, order) ==
    {s \in Perms(rows) :
        \A i, j \in 1..Len(s) : i < j => ~Before(field, order, s[j], s[i])}

Min(a, b) == IF a < b THEN a ELSE b
Max(a, b) == IF a > b THEN a ELSE b

\* .offset(offset).limit(limit) applied to an ordered row sequence
MutSliceOffByOne(s, offset, limit) == SubSeq(s, offset + 1, Min(Len(s), offset + limit + 1))
Slice(s, offset, limit) == SubSeq(s, offset + 1, Min(Len(s), offset + limit))

\* result.scalars().all(): the Book entity of each row
Scalars(s) == [i \in 1..Len(s) |-> s[i].book]

\* The repository returns (books, total).  A negative OFFSET or LIMIT is
\* rejected by some stores and read as "none" by others.
PageOutcomes(ordered, total, offset, limit) ==
    LET base == [status |-> "ok", items |-> <<>>, total |-> total,
                 offset |-> offset, limit |-> limit,
                 page |-> None, page_size |-> None]
    IN  IF offset < 0 \/ limit < 0
        THEN {[base EXCEPT !.status = "error"]}
             \cup {[base EXCEPT !.items =
                        Scalars(Slice(s, Max(offset, 0),
                                      IF limit < 0 THEN Len(s) ELSE limit))] :
                     s \in ordered}
        ELSE {[base EXCEPT !.items = Scalars(Slice(s, offset, limit))] : s \in ordered}

RepoGetBooksList(p) ==
    LET rows == FilteredRows(p)
        total == Cardinality(rows)
        sort_enum == ParseSortField(p.sort)
        order_enum == ParseSortOrder(p.order)
        offset == (p.page - 1) * p.page_size
    IN  PageOutcomes(OrderedRows(rows, sort_enum, order_enum), total, offset, p.page_size)

(***************************************************************************)
(* BookService.get_books_list                                              *)
(***************************************************************************)
\* if page < 1: page = 1
ClampPage(page) == IF page < MinPage THEN MinPage ELSE page

\* if page_size < 1 or page_size > 100: page_size = 10
ClampPageSize(page_size) ==
    IF page_size < MinPageSize \/ page_size > MaxPageSize
    THEN DefaultPageSize ELSE page_size

ServiceGetBooksList(p) ==
    LET page == ClampPage(p.page)
        page_size == ClampPageSize(p.page_size)
        sort == ParseSortField(p.sort)
        order == ParseSortOrder(p.order)
        r == [p EXCEPT !.page = page, !.page_size = page_size,
                       !.sort = sort, !.order = order]
    IN  {[x EXCEPT !.page = Some(page), !.page_size = Some(page_size)] :
            x \in RepoGetBooksList(r)}

(***************************************************************************)
(* get_genres_list: BookRepository / GenreRepository, and GenreService     *)
(***************************************************************************)
GenreRows(p) ==
    {g \in DOMAIN genres : TruthyStr(p.q) => ILike(genres[g], Val(p.q))}

\* order_by(Genre.name.asc())
MutOrderedGenresAny(rows) == Perms(rows)
OrderedGenres(rows) ==
    {s \in Perms(rows) :
        \A i, j \in 1..Len(s) : i < j => ~StrLess(genres[s[j]], genres[s[i]])}

GenrePageOutcomes(ordered, total, offset, limit) ==
    LET base == [status |-> "ok", items |-> <<>>, total |-> total,
                 offset |-> offset, limit |-> limit,
                 page |-> None, page_size |-> None]
    IN  IF offset < 0 \/ limit < 0
        THEN {[base EXCEPT !.status = "error"]}
             \cup {[base EXCEPT !.items =
                        Slice(s, Max(offset, 0), IF limit < 0 THEN Len(s) ELSE limit)] :
                     s \in ordered}
        ELSE {[base EXCEPT !.items = Slice(s, offset, limit)] : s \in ordered}

RepoGetGenresList(p) ==
    LET rows == GenreRows(p)
        total == Cardinality(rows)
        offset == (p.page - 1) * p.page_size
    IN  GenrePageOutcomes(OrderedGenres(rows), total, offset, p.page_size)

ServiceGetGenresList(p) ==
    LET page == ClampPage(p.page)
        page_size == ClampPageSize(p.page_size)
        r == [p EXCEPT !.page = page, !.page_size = page_size]
    IN  {[x EXCEPT !.page = Some(page), !.page_size = Some(page_size)] :
            x \in RepoGetGenresList(r)}

\* the four entry points of the list-query engine
ListResults(entry, p) ==
    CASE entry = "BookService" -> ServiceGetBooksList(p)
      [] entry = "BookRepository" -> RepoGetBooksList(p)
      [] entry = "GenreService" -> ServiceGetGenresList(p)
      [] entry = "GenreRepository" -> RepoGetGenresList(p)

(***************************************************************************)
(* The stores and the requests tried                                       *)
(***************************************************************************)
Injective(f) == \A x, y \in DOMAIN f : x # y => f[x] # f[y]

\* genres.name is UNIQUE: a genres table never holds a name twice
GenreTables ==
    UNION {{f \in [1..k -> GenreNames] : Injective(f)} : k \in 0..MaxGenres}
BookTables == UNION {[1..n -> BookRow] : n \in 0..MaxBooks}

SomeGenreTable == CHOOSE f \in [GenreIds -> GenreNames] : Injective(f)

QVals == {None, Some(<<>>), Some(<<"B">>)}
GenreIdVals == {None, Some(1), Some(NoSuchGenre)}
YearVals == {None, Some(0), Some(2000)}
RatingVals == {None, Some(0), Some(50)}
Filters == [q : QVals, genre_id : GenreIdVals, published_year : YearVals,
            rating_min : RatingVals, rating_max : RatingVals]
NoFilters == [q |-> None, genre_id |-> None, published_year |-> None,
              rating_min |-> None, rating_max |-> None]
OfGenre1 == [NoFilters EXCEPT !.genre_id = Some(1)]

Sorts == SortFieldValues \cup {"bogus"}
Orders == SortOrderValues \cup {"bogus"}
Pages == 0..MaxPage
PageSizes == {0, 1, 2, MaxPageSize, MaxPageSize + 1}

BookQuery(f, sort, order, page, page_size) ==
    [page |-> page, page_size |-> page_size, sort |-> sort, order |-> order,
     q |-> f.q, genre_id |-> f.genre_id, published_year |-> f.published_year,
     rating_min |-> f.rating_min, rating_max |-> f.rating_max]

\* Requests tried.  Every combination of filters is tried with the router's
\* defaults (page 1, page_size 10, sort title, order asc); every sort and
\* order string, and every page and page_size, is tried without filters.
FilterQueries ==
    {BookQuery(f, "title", "asc", MinPage, DefaultPageSize) :
        f \in {g \in Filters : g.rating_min # Some(0) /\ g.rating_max # Some(0)}}
    \cup {BookQuery([NoFilters EXCEPT !.rating_min = lo, !.rating_max = hi],
                    "title", "asc", MinPage, DefaultPageSize) :
            lo \in RatingVals, hi \in RatingVals}
PagingQueries ==
    {BookQuery(NoFilters, s, o, MinPage, DefaultPageSize) : s \in Sorts, o \in Orders}
    \cup {BookQuery(NoFilters, "title", "asc", pg, ps) : pg \in Pages, ps \in PageSizes}
    \cup {BookQuery(OfGenre1, "bogus", "bogus", pg, 1) : pg \in Pages}
BookQueries(entry) ==
    IF entry = "BookService" THEN FilterQueries \cup PagingQueries ELSE PagingQueries

GenreQueries ==
    [page : Pages, page_size : PageSizes, q : {None}]
    \cup [page : {MinPage}, page_size : {1, DefaultPageSize}, q : {Some(<<"A">>)}]

BookWalks ==
    {BookQuery(f, s, "asc", MinPage, ps) :
        f \in {NoFilters, OfGenre1}, s \in SortFieldValues, ps \in {1, 2}}
    \cup {BookQuery(NoFilters, "title", "desc", MinPage, 1)}
GenreWalks == [page : {MinPage}, page_size : {1, 2}, q : {None, Some(<<"A">>), Some(<<"B">>)}]

BookEntries == {"BookService", "BookRepository"}
GenreEntries == {"GenreService", "GenreRepository"}

Ceil(a, b) == (a + b - 1) \div b

(***************************************************************************)
(* List requests                                                           *)
(***************************************************************************)
\* a store whose link rows satisfy their foreign keys
StoreOK ==
    /\ books \in BookTables
    /\ genres \in GenreTables
    /\ bookGenres \in SUBSET ((DOMAIN books) \X (DOMAIN genres))

InitWrites ==
    /\ pc = [r \in Requests |-> "idle"]
    /\ tx = [r \in Requests |-> None]
    /\ btx = [r \in Requests |-> None]
    /\ op = [r \in Requests |-> None]
    /\ out = [r \in Requests |-> None]

InitList ==
    /\ \/ genres = SomeGenreTable
       \/ genres \in GenreTables /\ books = <<>>
    /\ StoreOK
    /\ contributors = <<>> /\ bookContributors = {}
    /\ call = None /\ resp = None /\ enum = None
    /\ InitWrites

ListCall(entry, p) ==
    /\ call = None /\ enum = None
    /\ \E r \in ListResults(entry, p) :
          /\ call' = Some([entry |-> entry, p |-> p])
          /\ resp' = Some(r)
    /\ UNCHANGED <<store, enum, writeVars>>

GetBooksList == \E entry \in BookEntries : \E p \in BookQueries(entry) : ListCall(entry, p)

GetGenresList == \E entry \in GenreEntries, p \in GenreQueries : ListCall(entry, p)

\* a client asks for page 1, learns total, and goes on to walk every page
WalkStartAt(entry, p) ==
    /\ call = None /\ enum = None
    /\ \E r \in ListResults(entry, p) :
          LET pages == Ceil(r.total, p.page_size) IN
          /\ call' = Some([entry |-> entry, p |-> p])
          /\ resp' = Some(r)
          /\ enum' = Some([total |-> r.total, pages |-> pages, page |-> MinPage,
                           seen |-> IF pages = 0 THEN <<>> ELSE r.items,
                           done |-> pages <= 1])
    /\ UNCHANGED <<store, writeVars>>

WalkStart ==
    \/ \E entry \in BookEntries, p \in BookWalks : WalkStartAt(entry, p)
    \/ \E entry \in GenreEntries, p \in GenreWalks : WalkStartAt(entry, p)

WalkNext ==
    /\ enum # None /\ ~Val(enum).done
    /\ LET e == Val(enum)
           c == Val(call)
           p == [c.p EXCEPT !.page = e.page + 1]
       IN  \E r \in ListResults(c.entry, p) :
              /\ call' = Some([c EXCEPT !.p = p])
              /\ resp' = Some(r)
              /\ enum' = Some([e EXCEPT !.page = e.page + 1,
                                        !.seen = e.seen \o r.items,
                                        !.done = (e.page + 1 = e.pages)])
    /\ UNCHANGED <<store, writeVars>>

\* get_db: the request's session is closed and the response is delivered
EndRequest ==
    /\ call # None
    /\ enum # None => Val(enum).done
    /\ call' = None /\ resp' = None /\ enum' = None
    /\ UNCHANGED <<store, writeVars>>

NextList == GetBooksList \/ GetGenresList \/ WalkStart \/ WalkNext \/ EndRequest

SpecList == InitList /\ [][NextList]_vars

(***************************************************************************)
(* Properties of the list-query engine                                     *)
(***************************************************************************)
IsBookCall == call # None /\ Val(call).entry \in BookEntries
IsGenreCall == call # None /\ Val(call).entry \in GenreEntries
ValidPaging(p) ==
    p.page >= 1 /\ p.page_size >= 1 /\ p.page_size <= MaxPageSize
Occurrences(x, s) == Cardinality({i \in 1..Len(s) : s[i] = x})
Range(s) == {s[i] : i \in 1..Len(s)}
WholePage(p) == p.page = MinPage /\ p.page_size >= MaxBooks

\* what a request asks for: the books that satisfy every parameter it supplies
\* (a parameter is supplied when it is not None)
Satisfies(b, p) ==
    /\ p.q # None => ILike(books[b].title, Val(p.q))
    /\ p.genre_id # None => <<b, Val(p.genre_id)>> \in bookGenres
    /\ p.published_year # None => books[b].published_year = p.published_year
    /\ p.rating_min # None =>
          books[b].rating # None /\ Val(books[b].rating) >= Val(p.rating_min)
    /\ p.rating_max # None =>
          books[b].rating # None /\ Val(books[b].rating) <= Val(p.rating_max)
Wanted(p) == {b \in DOMAIN books : Satisfies(b, p)}

\* C1: with page >= 1 and page_size in 1..100 every call of get_books_list and
\* of get_genres_list returns at most page_size items, and the item counts of
\* the pages 1..ceil(total/page_size) add up to the returned total.
C1_PageCounts ==
    /\ (call # None /\ ValidPaging(Val(call).p)) =>
          /\ Val(resp).status = "ok"
          /\ Len(Val(resp).items) <= Val(call).p.page_size
    /\ (enum # None /\ Val(enum).done) =>
          /\ Len(Val(enum).seen) = Val(enum).total
          /\ Val(resp).total = Val(enum).total

C1_Witness ==
    /\ IsBookCall /\ enum # None /\ Val(enum).done
    /\ Val(enum).pages >= 2 /\ Val(call).p.page_size = 1
    /\ Len(Val(enum).seen) = 2

\* C2: walking the pages 1..ceil(total/page_size) of get_books_list with fixed
\* filters, sort and order returns every matching book exactly once.
C2_EveryBookOnce ==
    (IsBookCall /\ enum # None /\ Val(enum).done) =>
        \A b \in DOMAIN books :
            Occurrences(b, Val(enum).seen) =
                IF b \in {row.book : row \in FilteredRows(Val(call).p)} THEN 1 ELSE 0

\* C3: total is the exact number of books that satisfy all supplied filters,
\* whatever the page, page_size, sort and order; a page beyond the last one
\* returns no items and the same total.
C3_TotalExact ==
    (IsBookCall /\ Val(resp).status = "ok") =>
        /\ Val(resp).total = Cardinality(Wanted(Val(call).p))
        /\ Val(resp).offset >= Val(resp).total => Val(resp).items = <<>>

\* C4: a book is counted and listed if and only if it satisfies every supplied
\* predicate (q, genre_id, published_year, rating_min, rating_max), including
\* published_year = 0 and an empty q.
C4_SuppliedFiltersAnded ==
    (IsBookCall /\ Val(resp).status = "ok" /\ WholePage(Val(call).p)) =>
        /\ Range(Val(resp).items) = Wanted(Val(call).p)
        /\ Val(resp).total = Cardinality(Wanted(Val(call).p))

\* the items of a response are in the order of column `field`, direction `order`
ItemsOrdered(field, order) ==
    LET it == Val(resp).items IN
    \A i, j \in 1..Len(it) : i < j =>
        ~Before(field, order, [book |-> it[j]], [book |-> it[i]])

\* C5: every sort string and every order string gives a result, never an
\* error; a sort outside {title, rating, published_year} orders by title, an
\* order outside {asc, desc} orders ascending, each independently of the other.
C5_SortFallback ==
    (IsBookCall /\ (Val(call).entry = "BookService" \/ ValidPaging(Val(call).p))) =>
        LET p == Val(call).p IN
        /\ Val(resp).status = "ok"
        /\ ItemsOrdered(IF p.sort \in {"title", "rating", "published_year"}
                        THEN p.sort ELSE "title",
                        IF p.order \in {"asc", "desc"} THEN p.order ELSE "asc")

C5_Witness ==
    /\ IsBookCall
    /\ Val(call).p.sort = "bogus" /\ Val(call).p.order = "bogus"
    /\ Len(Val(resp).items) = 2
    /\ StrLess(books[Val(resp).items[1]].title, books[Val(resp).items[2]].title)
    /\ OptLess(books[Val(resp).items[2]].rating, books[Val(resp).items[1]].rating)

\* C6: at every entry point (service and repository, books and genres) the
\* offset is never negative and the limit is in 1..100, and a service response
\* reports the clamped page and page_size.
C6_ClampedEverywhere ==
    call # None =>
        /\ Val(resp).offset >= 0
        /\ Val(resp).limit >= 1 /\ Val(resp).limit <= MaxPageSize
        /\ Val(call).entry \in {"BookService", "GenreService"} =>
              /\ Val(resp).page = Some(Max(Val(call).p.page, 1))
              /\ Val(resp).offset = (Val(Val(resp).page) - 1) * Val(resp).limit

\* C7: the rating range is inclusive and each bound independently optional: a
\* supplied bound (0 included) is applied, a book rated exactly a bound is
\* returned, and a book with no rating is never returned under a bound.
InRatingRange(b, lo, hi) ==
    /\ books[b].rating # None
    /\ lo # None => Val(lo) <= Val(books[b].rating)
    /\ hi # None => Val(books[b].rating) <= Val(hi)

C7_RatingRange ==
    (IsBookCall /\ Val(resp).status = "ok") =>
        LET p == Val(call).p
            bounded == p.rating_min # None \/ p.rating_max # None
        IN  /\ bounded =>
                 \A b \in Range(Val(resp).items) : InRatingRange(b, p.rating_min, p.rating_max)
            /\ (/\ bounded /\ WholePage(p)
                /\ p.q = None /\ p.genre_id = None /\ p.published_year = None) =>
                 Range(Val(resp).items) =
                     {b \in DOMAIN books : InRatingRange(b, p.rating_min, p.rating_max)}

C7_Witness ==
    /\ IsBookCall
    /\ Val(call).p.rating_min = Some(50) /\ Val(call).p.rating_max = Some(50)
    /\ Len(Val(resp).items) = 1
    /\ \E b \in DOMAIN books : books[b].rating = Some(0)

\* C8: filtering by genre_id returns exactly the books linked to that genre,
\* each once and counted once however many genres it has; a book without
\* links is never returned, and a genre_id that matches nothing returns no
\* items and total 0 without an error.
C8_GenreFilter ==
    (IsBookCall /\ Val(call).p.genre_id # None /\ WholePage(Val(call).p)) =>
        LET p == Val(call).p
            g == Val(p.genre_id)
            linked == {b \in DOMAIN books : <<b, g>> \in bookGenres}
            it == Val(resp).items
        IN  /\ Val(resp).status = "ok"
            /\ Range(it) \subseteq linked
            /\ \A b \in Range(it) : Occurrences(b, it) = 1
            /\ Val(resp).total = Len(it)
            /\ (p.q = None /\ p.published_year = None
                /\ p.rating_min = None /\ p.rating_max = None) => Range(it) = linked
            /\ linked = {} => it = <<>> /\ Val(resp).total = 0

C8_Witness ==
    /\ IsBookCall /\ Val(call).p = BookQuery(OfGenre1, "title", "asc", MinPage, DefaultPageSize)
    /\ Val(resp).items = <<1>>
    /\ {<<1, 1>>, <<1, 2>>} \subseteq bookGenres
    /\ 2 \in DOMAIN books /\ \A l \in bookGenres : l[1] # 2

(***************************************************************************)
(* Genre writes: GenreService.create_genre / update_genre / delete_genre,  *)
(* each request on its own session                                         *)
(***************************************************************************)
\* what a session reads of the book and link tables: the committed rows, not
\* the rows other sessions have flushed and not committed
MutReadViewDirty(r) ==
    IF \E r2 \in Requests \ {r} : btx[r2] # None
    THEN Val(btx[CHOOSE r2 \in Requests \ {r} : btx[r2] # None])
    ELSE [books |-> books, bookGenres |-> bookGenres,
          bookContributors |-> bookContributors]
ReadView(r) ==
    [books |-> books, bookGenres |-> bookGenres, bookContributors |-> bookContributors]

\* get_db: async with async_session() as session: yield session
OpenSession(r) ==
    /\ pc[r] = "idle"
    /\ pc' = [pc EXCEPT ![r] = "open"]
    /\ tx' = [tx EXCEPT ![r] = Some(genres)]
    /\ btx' = [btx EXCEPT ![r] = Some(ReadView(r))]
    /\ UNCHANGED <<store, listVars, op, out>>

MutCloseSessionCommits(r) ==
    /\ pc[r] \in {"open", "done"}
    /\ pc' = [pc EXCEPT ![r] = "idle"]
    /\ tx' = [tx EXCEPT ![r] = None]
    /\ btx' = [btx EXCEPT ![r] = None]
    /\ op' = [op EXCEPT ![r] = None]
    /\ out' = [out EXCEPT ![r] = None]
    /\ genres' = Val(tx[r])
    /\ books' = Val(btx[r]).books
    /\ bookGenres' = Val(btx[r]).bookGenres
    /\ bookContributors' = Val(btx[r]).bookContributors
    /\ UNCHANGED <<contributors, listVars>>
\* the session is closed without a commit: what it flushed is rolled back
CloseSession(r) ==
    /\ pc[r] \in {"open", "done"}
    /\ pc' = [pc EXCEPT ![r] = "idle"]
    /\ tx' = [tx EXCEPT ![r] = None]
    /\ btx' = [btx EXCEPT ![r] = None]
    /\ op' = [op EXCEPT ![r] = None]
    /\ out' = [out EXCEPT ![r] = None]
    /\ UNCHANGED <<store, listVars>>

\* select(Genre).where(Genre.name == name): the ids of the rows found
MutGetGenreByNameAnyCase(table, name) ==
    {g \in DOMAIN table : LowerStr(table[g]) = LowerStr(name)}
GetGenreByName(table, name) == {g \in DOMAIN table : table[g] = name}

\* if existing_genre and existing_genre.id != genre_id
MutNameHeldByAny(table, name, genre_id) == GetGenreByName(table, name) # {}
NameHeldByOther(table, name, genre_id) ==
    \E g \in GetGenreByName(table, name) : g # genre_id

\* Genre.id default=uuid4: an id no row has
NewGenreId(r) == MaxGenres + r

\* rows another open session has flushed and not committed hold the unique
\* index entry of their name: a flush of the same name waits for that session
PendingNames(r) ==
    {Val(tx[r])[g] : g \in {h \in DOMAIN Val(tx[r]) :
                               h \notin DOMAIN genres \/ genres[h] # Val(tx[r])[h]}}
MutMustWaitNever(r, name) == FALSE
MustWait(r, name) ==
    \E r2 \in Requests \ {r} : tx[r2] # None /\ name \in PendingNames(r2)

\* a row another open session has updated or deleted and not committed is
\* locked: an UPDATE or DELETE of it waits for that session
GenreRowLocked(r, g) ==
    \E r2 \in Requests \ {r} :
        /\ tx[r2] # None /\ g \in DOMAIN genres
        /\ (g \notin DOMAIN Val(tx[r2]) \/ Val(tx[r2])[g] # genres[g])

Extend(table, g, name) ==
    [h \in DOMAIN table \cup {g} |-> IF h = g THEN name ELSE table[h]]

Conflict(name) == [kind |-> "Conflict", value |-> Some(name)]
NotFound == [kind |-> "NotFound", value |-> None]
Deleted == [kind |-> "Deleted", value |-> None]
GenreResponse(g, name) == [kind |-> "ok", value |-> Some(<<g, name>>)]

CreateGenre(r, name) ==
    /\ pc[r] = "open"
    /\ LET table == Val(tx[r]) IN
       IF GetGenreByName(table, name) # {}
       THEN /\ out' = [out EXCEPT ![r] = Some(Conflict(name))]
            /\ tx' = tx
       ELSE /\ ~MustWait(r, name)
            /\ tx' = [tx EXCEPT ![r] = Some(Extend(table, NewGenreId(r), name))]
            /\ out' = [out EXCEPT ![r] = Some(GenreResponse(NewGenreId(r), name))]
    /\ op' = [op EXCEPT ![r] = Some([call |-> "create_genre", id |-> None,
                                     name |-> Some(name), set |-> TRUE])]
    /\ pc' = [pc EXCEPT ![r] = "done"]
    /\ UNCHANGED <<store, listVars, btx>>

\* GenreUpdate: `set` tells whether the request body carries the field name,
\* `name` is its value (None for null or absent)
GenreUpdates ==
    {[set |-> FALSE, name |-> None], [set |-> TRUE, name |-> None]}
    \cup {[set |-> TRUE, name |-> Some(n)] : n \in GenreNames}

UpdateGenre(r, genre_id, data) ==
    /\ pc[r] = "open"
    /\ LET table == Val(tx[r]) IN
       IF data.name # None /\ Val(data.name) # <<>>
          /\ NameHeldByOther(table, Val(data.name), genre_id)
       THEN /\ out' = [out EXCEPT ![r] = Some(Conflict(Val(data.name)))]
            /\ tx' = tx
       ELSE IF ~data.set
       THEN \* not update_dict: return await self.get_genre_by_id(genre_id)
            /\ out' = [out EXCEPT ![r] =
                          Some(IF genre_id \in DOMAIN table
                               THEN GenreResponse(genre_id, table[genre_id])
                               ELSE NotFound)]
            /\ tx' = tx
       ELSE IF genre_id \notin DOMAIN table
       THEN /\ out' = [out EXCEPT ![r] = Some(NotFound)]
            /\ tx' = tx
       ELSE LET name == IF data.name # None THEN Val(data.name) ELSE table[genre_id] IN
            /\ name # table[genre_id] =>
                  ~MustWait(r, name) /\ ~GenreRowLocked(r, genre_id)
            /\ tx' = [tx EXCEPT ![r] = Some([table EXCEPT ![genre_id] = name])]
            /\ out' = [out EXCEPT ![r] = Some(GenreResponse(genre_id, name))]
    /\ op' = [op EXCEPT ![r] = Some([call |-> "update_genre", id |-> Some(genre_id),
                                     name |-> data.name, set |-> data.set])]
    /\ pc' = [pc EXCEPT ![r] = "done"]
    /\ UNCHANGED <<store, listVars, btx>>

\* ForeignKey('genres.id', ondelete='CASCADE'): the links of a deleted genre
MutCascadeGenreKeeps(links, genre_id) == links
CascadeGenre(links, genre_id) == {l \in links : l[2] # genre_id}

Without(table, id) == [h \in DOMAIN table \ {id} |-> table[h]]

DeleteGenre(r, genre_id) ==
    /\ pc[r] = "open"
    /\ LET table == Val(tx[r]) IN
       IF genre_id \notin DOMAIN table
       THEN /\ out' = [out EXCEPT ![r] = Some(NotFound)]
            /\ tx' = tx /\ btx' = btx
       ELSE /\ ~GenreRowLocked(r, genre_id)
            /\ tx' = [tx EXCEPT ![r] = Some(Without(table, genre_id))]
            /\ btx' = [btx EXCEPT ![r] =
                          Some([Val(btx[r]) EXCEPT
                                  !.bookGenres = CascadeGenre(@, genre_id)])]
            /\ out' = [out EXCEPT ![r] = Some(Deleted)]
    /\ op' = [op EXCEPT ![r] = Some([call |-> "delete_genre", id |-> Some(genre_id),
                                     name |-> None, set |-> FALSE])]
    /\ pc' = [pc EXCEPT ![r] = "done"]
    /\ UNCHANGED <<store, listVars>>

InitGenre ==
    /\ genres \in GenreTables
    /\ books = <<>>
    /\ bookGenres = {}
    /\ contributors = <<>> /\ bookContributors = {}
    /\ call = None /\ resp = None /\ enum = None
    /\ InitWrites

NextGenre ==
    \E r \in Requests :
        \/ OpenSession(r)
        \/ \E name \in GenreNames : CreateGenre(r, name)
        \/ \E g \in GenreIds \cup {NoSuchGenre}, data \in GenreUpdates :
              UpdateGenre(r, g, data)
        \/ \E g \in GenreIds \cup {NoSuchGenre} : DeleteGenre(r, g)
        \/ CloseSession(r)

SpecGenre == InitGenre /\ [][NextGenre]_vars

(***************************************************************************)
(* Properties of the uniqueness guard                                      *)
(***************************************************************************)
Made(r, c) == pc[r] = "done" /\ Val(op[r]).call = c
NamesOf(table) == {table[g] : g \in DOMAIN table}

\* C9: create_genre with a name that some genre holds exactly fails with a
\* Conflict naming it and inserts nothing; with any other name, one differing
\* only in letter case included, it succeeds and adds exactly one genre.
C9_CreateGenreGuard ==
    \A r \in Requests : Made(r, "create_genre") =>
        LET name == Val(Val(op[r]).name)
            table == Val(tx[r])
        IN  IF \E g \in DOMAIN genres : genres[g] = name
            THEN Val(out[r]) = Conflict(name) /\ table = genres
            ELSE /\ Val(out[r]).kind = "ok"
                 /\ \E g \in DOMAIN table \ DOMAIN genres :
                       /\ DOMAIN table = DOMAIN genres \cup {g}
                       /\ table[g] = name
                       /\ Val(out[r]) = GenreResponse(g, name)
                 /\ \A g \in DOMAIN genres : table[g] = genres[g]

C9_Witness ==
    \E r \in Requests :
        /\ Made(r, "create_genre")
        /\ Val(op[r]).name = Some(<<"A">>)
        /\ <<"a">> \in NamesOf(genres)
        /\ Val(out[r]).kind = "ok"
        /\ NamesOf(Val(tx[r])) = NamesOf(genres) \cup {<<"A">>}

\* C10: update_genre(id, name) fails with a Conflict naming the value, changing
\* nothing, when a genre with another id holds the name; renaming a genre to
\* its own name succeeds and changes nothing; when no other genre holds the
\* name and the id exists, that genre gets the name and no other genre changes.
C10_UpdateGenreGuard ==
    \A r \in Requests : (Made(r, "update_genre") /\ Val(op[r]).name # None) =>
        LET name == Val(Val(op[r]).name)
            id == Val(Val(op[r]).id)
            table == Val(tx[r])
        IN  IF \E g \in DOMAIN genres : g # id /\ genres[g] = name
            THEN Val(out[r]) = Conflict(name) /\ table = genres
            ELSE IF id \in DOMAIN genres
            THEN /\ Val(out[r]) = GenreResponse(id, name)
                 /\ table = [genres EXCEPT ![id] = name]
                 /\ genres[id] = name => table = genres
            ELSE Val(out[r]) = NotFound /\ table = genres

C10_Witness ==
    \E r \in Requests :
        /\ Made(r, "update_genre")
        /\ Val(op[r]).id = Some(1)
        /\ 1 \in DOMAIN genres /\ Val(op[r]).name = Some(genres[1])
        /\ Val(out[r]) = GenreResponse(1, genres[1])
        /\ Val(tx[r]) = genres /\ Cardinality(DOMAIN genres) = 2

\* C11: in every reachable state, whatever create_genre, update_genre and
\* delete_genre requests have run or are running concurrently, no two genre
\* rows hold the same name: not in the committed table, not in the table as
\* any open session sees it, and not among the rows that different open
\* sessions have flushed and not yet committed.
C11_UniqueNames ==
    /\ Injective(genres)
    /\ \A r \in Requests : tx[r] # None => Injective(Val(tx[r]))
    /\ \A r1, r2 \in Requests :
          (r1 # r2 /\ tx[r1] # None /\ tx[r2] # None) =>
              PendingNames(r1) \cap PendingNames(r2) = {}

C11_Witness ==
    \E r1, r2 \in Requests :
        /\ r1 # r2
        /\ Made(r1, "create_genre") /\ Val(out[r1]).kind = "ok"
        /\ Made(r2, "update_genre") /\ Val(out[r2]).kind = "ok"
        /\ PendingNames(r1) # {} /\ PendingNames(r2) # {}

(***************************************************************************)
(* Book writes: BookService.create_book / update_book / delete_book and    *)
(* the reads get_book_by_id / get_books_list, each request on a session.   *)
(* A service call is a sequence of repository calls; every repository call *)
(* is one step, so the states between them are visible.                    *)
(***************************************************************************)
ContributorIds == 1..MaxContributors
NoSuchContributor == MaxContributors + 1   \* a well-formed UUID that no contributor has
NoSuchBook == MaxBooks + NumRequests + 1   \* a well-formed UUID that no book has
Roles == {"author", "editor", "illustrator"}   \* enum Role

\* Contributor.full_name is unique
ContributorName(c) == [i \in 1..c |-> "a"]
SomeContributorTable == [c \in ContributorIds |-> ContributorName(c)]

\* a field of BookUpdate: absent from the body, present as null, or a value
Unset == [set |-> FALSE, value |-> None]
Null == [set |-> TRUE, value |-> None]
Given(v) == [set |-> TRUE, value |-> Some(v)]

Distinct(seq) == \A i, j \in 1..Len(seq) : i # j => seq[i] # seq[j]

IntegrityError == [kind |-> "IntegrityError", value |-> None]
Ok(v) == [kind |-> "ok", value |-> Some(v)]

\* the tables as the session of request r sees them
View(r) == Val(btx[r])
GenreView(r) == Val(tx[r])

\* BookRepository.get_book_genres: select(Genre).join(BookGenre)
GetBookGenres(v, gtable, book_id) ==
    {<<g, gtable[g]>> : g \in {h \in DOMAIN gtable : <<book_id, h>> \in v.bookGenres}}

\* BookRepository.get_book_contributors: select(Contributor, BookContributor.role)
GetBookContributors(v, book_id) ==
    {<<l[2], contributors[l[2]], l[3]>> :
        l \in {k \in v.bookContributors : k[1] = book_id /\ k[2] \in DOMAIN contributors}}

\* BookResponse(id, title, rating, published_year, genres, contributors); the
\* two lists are in no particular order and are kept as sets
BookResponse(b, row, gs, cs) ==
    [id |-> b, title |-> row.title, rating |-> row.rating,
     published_year |-> row.published_year, genres |-> gs, contributors |-> cs]

\* BookService.get_book_by_id: None when the book is not found
GetBookById(v, gtable, book_id) ==
    IF book_id \notin DOMAIN v.books
    THEN NotFound
    ELSE Ok(BookResponse(book_id, v.books[book_id],
                         GetBookGenres(v, gtable, book_id),
                         GetBookContributors(v, book_id)))

\* update_dict = book_data.dict(exclude_unset=True, exclude={genre_ids, contributors})
UpdateDict(data) ==
    {f \in {"title", "rating", "published_year"} : data[f].set}

\* for key, value in book_data.items(): if ... value is not None: setattr
MutSetAttrsNullClears(row, data) ==
    [title |-> IF data.title.set /\ data.title.value # None
               THEN Val(data.title.value) ELSE row.title,
     rating |-> IF data.rating.set THEN data.rating.value ELSE row.rating,
     published_year |-> IF data.published_year.set
                        THEN data.published_year.value ELSE row.published_year]
SetAttrs(row, data) ==
    [title |-> IF data.title.set /\ data.title.value # None
               THEN Val(data.title.value) ELSE row.title,
     rating |-> IF data.rating.set /\ data.rating.value # None
                THEN data.rating.value ELSE row.rating,
     published_year |-> IF data.published_year.set /\ data.published_year.value # None
                        THEN data.published_year.value ELSE row.published_year]

\* BookRepository.update_book_genres: delete the book's links, add one link per
\* id, flush.  The flush is rejected when a link breaks a foreign key or the
\* primary key (book_id, genre_id).
\* the BookGenre rows the loop adds to the session, in the order of the list
GenreLinkRows(book_id, genre_ids) ==
    [i \in 1..Len(genre_ids) |-> <<book_id, genre_ids[i]>>]
\* the BookContributor rows the loop adds: (book_id, contributor_id, role)
ContributorLinkRows(book_id, cs) ==
    [i \in 1..Len(cs) |-> <<book_id, cs[i][1], cs[i][2]>>]
MutContributorLinksNoKey(v, book_id, cs) ==
    \A i \in 1..Len(cs) :
        book_id \in DOMAIN v.books /\ cs[i][1] \in DOMAIN contributors
GenreLinksAccepted(v, gtable, book_id, genre_ids) ==
    /\ \A i \in 1..Len(genre_ids) :
          book_id \in DOMAIN v.books /\ genre_ids[i] \in DOMAIN gtable
    /\ Distinct(GenreLinkRows(book_id, genre_ids))
MutGenreLinksKeepOld(links, book_id, genre_ids) ==
    links \cup {<<book_id, genre_ids[i]>> : i \in 1..Len(genre_ids)}
MutGenreLinksDeleteAll(links, book_id, genre_ids) ==
    {<<book_id, genre_ids[i]>> : i \in 1..Len(genre_ids)}
GenreLinksReplaced(links, book_id, genre_ids) ==
    {l \in links : l[1] # book_id}
        \cup {<<book_id, genre_ids[i]>> : i \in 1..Len(genre_ids)}

\* BookRepository.update_book_contributors, primary key (book_id, contributor_id, role)
ContributorLinksAccepted(v, book_id, cs) ==
    /\ \A i \in 1..Len(cs) :
          book_id \in DOMAIN v.books /\ cs[i][1] \in DOMAIN contributors
    /\ Distinct(ContributorLinkRows(book_id, cs))
ContributorLinksReplaced(links, book_id, cs) ==
    {l \in links : l[1] # book_id}
        \cup {<<book_id, cs[i][1], cs[i][2]>> : i \in 1..Len(cs)}

\* Book.id default=uuid4: an id no row has
NewBookId(r) == MaxBooks + r

\* the link lists a service call passes on to the repository, if it does:
\* create_book tests `if book_data.genre_ids:`, update_book tests
\* `if book_data.genre_ids is not None:`
MutGenresDueNever(o) == FALSE
GenresDue(o) ==
    IF o.call = "create_book" THEN o.data.genre_ids # <<>> ELSE o.data.genre_ids # None
GenreIdList(o) ==
    IF o.call = "create_book" THEN o.data.genre_ids ELSE Val(o.data.genre_ids)
ContributorsDue(o) ==
    IF o.call = "create_book" THEN o.data.contributors # <<>>
    ELSE o.data.contributors # None
ContributorList(o) ==
    IF o.call = "create_book" THEN o.data.contributors ELSE Val(o.data.contributors)

\* where the service call goes on after its step `at`
After(o, at) ==
    IF at = "core" /\ GenresDue(o) THEN "genres"
    ELSE IF at \in {"core", "genres"} /\ ContributorsDue(o) THEN "contributors"
    ELSE "read"

\* the book a create_book / update_book call works on
Target(r) ==
    IF Val(op[r]).call = "create_book" THEN NewBookId(r) ELSE Val(Val(op[r]).id)

\* BookService.create_book up to repository.create_book: Book(**book_dict), flush
CreateBook(r, data) ==
    /\ pc[r] = "open"
    /\ LET o == [call |-> "create_book", id |-> None, data |-> data,
                 log |-> <<"create_book">>]
           row == [title |-> data.title, rating |-> data.rating,
                   published_year |-> data.published_year]
       IN  /\ op' = [op EXCEPT ![r] = Some(o)]
           /\ btx' = [btx EXCEPT ![r] =
                         Some([View(r) EXCEPT !.books = Extend(@, NewBookId(r), row)])]
           /\ pc' = [pc EXCEPT ![r] = After(o, "core")]
    /\ UNCHANGED <<store, listVars, tx, out>>

\* BookService.update_book up to repository.update_book
UpdateBook(r, book_id, data) ==
    /\ pc[r] = "open"
    /\ LET found == book_id \in DOMAIN View(r).books
           o == [call |-> "update_book", id |-> Some(book_id), data |-> data,
                 log |-> IF UpdateDict(data) # {} THEN <<"update_book">> ELSE <<>>]
       IN  /\ op' = [op EXCEPT ![r] = Some(o)]
           /\ IF UpdateDict(data) # {} /\ ~found
              THEN \* if not book: return None
                   /\ out' = [out EXCEPT ![r] = Some(NotFound)]
                   /\ pc' = [pc EXCEPT ![r] = "done"]
                   /\ btx' = btx
              ELSE /\ out' = out
                   /\ pc' = [pc EXCEPT ![r] = After(o, "core")]
                   /\ btx' = IF UpdateDict(data) # {}
                             THEN [btx EXCEPT ![r] =
                                     Some([View(r) EXCEPT
                                             !.books[book_id] = SetAttrs(@, data)])]
                             ELSE btx
    /\ UNCHANGED <<store, listVars, tx>>

\* repository.update_book_genres(book.id, genre_ids), called by the service
UpdateBookGenres(r) ==
    /\ pc[r] = "genres"
    /\ LET o == Val(op[r])
           b == Target(r)
           ids == GenreIdList(o)
           ok == GenreLinksAccepted(View(r), GenreView(r), b, ids)
       IN  /\ op' = [op EXCEPT ![r] =
                        Some([o EXCEPT !.log = Append(@, "update_book_genres")])]
           /\ btx' = [btx EXCEPT ![r] =
                         Some([View(r) EXCEPT !.bookGenres =
                                 IF ok THEN GenreLinksReplaced(@, b, ids)
                                 ELSE {l \in @ : l[1] # b}])]
           /\ out' = IF ok THEN out ELSE [out EXCEPT ![r] = Some(IntegrityError)]
           /\ pc' = [pc EXCEPT ![r] = IF ok THEN After(o, "genres") ELSE "done"]
    /\ UNCHANGED <<store, listVars, tx>>

\* repository.update_book_contributors(book.id, contributors_data)
UpdateBookContributors(r) ==
    /\ pc[r] = "contributors"
    /\ LET o == Val(op[r])
           b == Target(r)
           cs == ContributorList(o)
           ok == ContributorLinksAccepted(View(r), b, cs)
       IN  /\ op' = [op EXCEPT ![r] =
                        Some([o EXCEPT !.log = Append(@, "update_book_contributors")])]
           /\ btx' = [btx EXCEPT ![r] =
                         Some([View(r) EXCEPT !.bookContributors =
                                 IF ok THEN ContributorLinksReplaced(@, b, cs)
                                 ELSE {l \in @ : l[1] # b}])]
           /\ out' = IF ok THEN out ELSE [out EXCEPT ![r] = Some(IntegrityError)]
           /\ pc' = [pc EXCEPT ![r] = IF ok THEN After(o, "contributors") ELSE "done"]
    /\ UNCHANGED <<store, listVars, tx>>

\* return await self.get_book_by_id(book_id)
ReadBack(r) ==
    /\ pc[r] = "read"
    /\ out' = [out EXCEPT ![r] = Some(GetBookById(View(r), GenreView(r), Target(r)))]
    /\ pc' = [pc EXCEPT ![r] = "done"]
    /\ UNCHANGED <<store, listVars, tx, btx, op>>

\* ForeignKey('books.id', ondelete='CASCADE') of both link tables
MutCascadeBookGenresOnly(v, book_id) ==
    [v EXCEPT !.bookGenres = {l \in @ : l[1] # book_id}]
CascadeBook(v, book_id) ==
    [v EXCEPT !.bookGenres = {l \in @ : l[1] # book_id},
              !.bookContributors = {l \in @ : l[1] # book_id}]

\* BookService.delete_book: False (404) when the book is not found
DeleteBook(r, book_id) ==
    /\ pc[r] = "open"
    /\ IF book_id \notin DOMAIN View(r).books
       THEN /\ out' = [out EXCEPT ![r] = Some(NotFound)]
            /\ btx' = btx
       ELSE /\ out' = [out EXCEPT ![r] = Some(Deleted)]
            /\ btx' = [btx EXCEPT ![r] =
                          Some(CascadeBook([View(r) EXCEPT !.books = Without(@, book_id)],
                                           book_id))]
    /\ op' = [op EXCEPT ![r] = Some([call |-> "delete_book", id |-> Some(book_id),
                                     data |-> None, log |-> <<"delete_book">>])]
    /\ pc' = [pc EXCEPT ![r] = "done"]
    /\ UNCHANGED <<store, listVars, tx>>

MutGetBookDropsLinks(r, book_id) ==
    /\ pc[r] = "open"
    /\ out' = [out EXCEPT ![r] = Some(GetBookById(View(r), GenreView(r), book_id))]
    /\ op' = [op EXCEPT ![r] = Some([call |-> "get_book_by_id", id |-> Some(book_id),
                                     data |-> None, log |-> <<>>])]
    /\ pc' = [pc EXCEPT ![r] = "done"]
    /\ btx' = [btx EXCEPT ![r] =
                  Some([View(r) EXCEPT !.bookGenres = {l \in @ : l[1] # book_id}])]
    /\ UNCHANGED <<store, listVars, tx>>
\* GET /books/{book_id}
GetBook(r, book_id) ==
    /\ pc[r] = "open"
    /\ out' = [out EXCEPT ![r] = Some(GetBookById(View(r), GenreView(r), book_id))]
    /\ op' = [op EXCEPT ![r] = Some([call |-> "get_book_by_id", id |-> Some(book_id),
                                     data |-> None, log |-> <<>>])]
    /\ pc' = [pc EXCEPT ![r] = "done"]
    /\ UNCHANGED <<store, listVars, tx, btx>>

\* the book-listing services of the repository: package app.backend.books
\* and package backend.books
BookListServices == {"app.backend.books", "backend.books"}

\* the BookResponse a listing service builds for one book of the page
ListItem(service, v, gtable, b) ==
    IF service = "app.backend.books"
    THEN BookResponse(b, v.books[b], GetBookGenres(v, gtable, b),
                      GetBookContributors(v, b))
    ELSE \* BookResponse(id, title, rating, description, published_year)
         BookResponse(b, v.books[b], {}, {})

DefaultQuery == BookQuery(NoFilters, "title", "asc", MinPage, DefaultPageSize)

\* GET /books with the router's defaults
ListBooks(r, service) ==
    /\ pc[r] = "open"
    /\ \E res \in ServiceGetBooksList(DefaultQuery) :
          out' = [out EXCEPT ![r] =
                     Some(Ok([i \in 1..Len(res.items) |->
                                ListItem(service, View(r), GenreView(r), res.items[i])]))]
    /\ op' = [op EXCEPT ![r] = Some([call |-> "get_books_list", id |-> None,
                                     data |-> None, log |-> <<>>,
                                     service |-> service])]
    /\ pc' = [pc EXCEPT ![r] = "done"]
    /\ UNCHANGED <<store, listVars, tx, btx>>

\* GET /genres/{genre_id}: GenreService.get_genre_by_id
GetGenre(r, genre_id) ==
    /\ pc[r] = "open"
    /\ out' = [out EXCEPT ![r] =
                  Some(IF genre_id \in DOMAIN GenreView(r)
                       THEN GenreResponse(genre_id, GenreView(r)[genre_id])
                       ELSE NotFound)]
    /\ op' = [op EXCEPT ![r] = Some([call |-> "get_genre_by_id", id |-> Some(genre_id),
                                     data |-> None, log |-> <<>>])]
    /\ pc' = [pc EXCEPT ![r] = "done"]
    /\ UNCHANGED <<store, listVars, tx, btx>>

DefaultGenreQuery == [page |-> MinPage, page_size |-> DefaultPageSize, q |-> None]

\* GET /genres with the router's defaults
ListGenres(r) ==
    /\ pc[r] = "open"
    /\ \E res \in ServiceGetGenresList(DefaultGenreQuery) :
          out' = [out EXCEPT ![r] =
                     Some(Ok([i \in 1..Len(res.items) |->
                                <<res.items[i], GenreView(r)[res.items[i]]>>]))]
    /\ op' = [op EXCEPT ![r] = Some([call |-> "get_genres_list", id |-> None,
                                     data |-> None, log |-> <<>>])]
    /\ pc' = [pc EXCEPT ![r] = "done"]
    /\ UNCHANGED <<store, listVars, tx, btx>>

(***************************************************************************)
(* Stores and request bodies tried for the book writes                     *)
(***************************************************************************)
SeedRow == [title |-> <<"a">>, rating |-> Some(50), published_year |-> Some(2000)]

GenreIdLists ==
    {<<>>, <<1>>, <<MaxGenres, 1>>, <<1, 1>>, <<NoSuchGenre>>}
ContributorLists ==
    {<<>>, << <<1, "author">> >>, << <<1, "editor">>, <<1, "author">> >>,
     << <<1, "author">>, <<1, "author">> >>, << <<NoSuchContributor, "author">> >>}

\* BookUpdate bodies: every mix of absent / null / value for the core fields
\* without link lists, and every pair of link lists without core fields or
\* with a title
CoreUpdates ==
    [title : {Unset, Null, Given(<<"b">>)}, rating : {Unset, Null, Given(0)},
     published_year : {Unset, Given(2001)},
     genre_ids : {None}, contributors : {None}]
LinkUpdates ==
    [title : {Unset}, rating : {Unset}, published_year : {Unset},
     genre_ids : {None} \cup {Some(l) : l \in GenreIdLists},
     contributors : {None} \cup {Some(l) : l \in ContributorLists}]
    \cup [title : {Given(<<"b">>)}, rating : {Unset}, published_year : {Unset},
          genre_ids : {None, Some(<<1>>), Some(<<NoSuchGenre>>)},
          contributors : {None, Some(<<>>)}]
BookUpdates == CoreUpdates \cup LinkUpdates

\* BookCreate bodies: title is required, the lists default to []
BookCreates ==
    [title : {<<"b">>}, rating : {None, Some(0)}, published_year : {None},
     genre_ids : GenreIdLists, contributors : ContributorLists]

InitBook ==
    /\ genres = SomeGenreTable
    /\ contributors = SomeContributorTable
    /\ books \in {[b \in 1..n |-> SeedRow] : n \in 0..MaxBooks}
    /\ bookGenres \in SUBSET ((DOMAIN books) \X GenreIds)
    /\ bookContributors \in SUBSET ((DOMAIN books) \X ContributorIds \X {"author"})
    /\ call = None /\ resp = None /\ enum = None
    /\ InitWrites

\* Book requests are taken one after another: a session is opened when no
\* other request is in flight.
OpenSessionAlone(r) ==
    /\ \A r2 \in Requests : pc[r2] = "idle"
    /\ OpenSession(r)

NextBook ==
    \E r \in Requests :
        \/ OpenSessionAlone(r)
        \/ \E data \in BookCreates : CreateBook(r, data)
        \/ \E b \in BookIds \cup {NoSuchBook}, data \in BookUpdates : UpdateBook(r, b, data)
        \/ UpdateBookGenres(r)
        \/ UpdateBookContributors(r)
        \/ ReadBack(r)
        \/ \E b \in BookIds \cup {NoSuchBook} : DeleteBook(r, b)
        \/ \E name \in GenreNames : CreateGenre(r, name)
        \/ \E g \in GenreIds \cup {NoSuchGenre} : DeleteGenre(r, g)
        \/ \E b \in BookIds \cup {NoSuchBook} : GetBook(r, b)
        \/ \E service \in BookListServices : ListBooks(r, service)
        \/ \E g \in GenreIds \cup {NoSuchGenre} : GetGenre(r, g)
        \/ ListGenres(r)
        \/ CloseSession(r)

SpecBook == InitBook /\ [][NextBook]_vars

(***************************************************************************)
(* Properties of the book writes                                           *)
(***************************************************************************)
\* request r is inside, or has finished, the service call c
Running(r, c) == op[r] # None /\ Val(op[r]).call = c

GenreLinksOf(links, b) == {l \in links : l[1] = b}
ContributorLinksOf(links, b) == {l \in links : l[1] = b}

ValidGenreIds(ids) == Distinct(ids) /\ Range(ids) \subseteq DOMAIN genres
ValidContributors(cs) ==
    Distinct(cs) /\ \A i \in 1..Len(cs) : cs[i][1] \in DOMAIN contributors

\* C12: update_book on an existing book with genre_ids given as a list of
\* distinct existing genre ids (the empty list included) succeeds and leaves
\* the book with exactly those genre links, whatever links it had before; the
\* same for contributors given as a list of (contributor id, role) pairs.
C12_LinksReplaced ==
    \A r \in Requests :
        (Made(r, "update_book") /\ Val(Val(op[r]).id) \in DOMAIN books) =>
            LET b == Val(Val(op[r]).id)
                d == Val(op[r]).data
                v == View(r)
            IN  ((d.genre_ids # None => ValidGenreIds(Val(d.genre_ids)))
                 /\ (d.contributors # None => ValidContributors(Val(d.contributors)))) =>
                    /\ Val(out[r]).kind = "ok"
                    /\ d.genre_ids # None =>
                          /\ GenreLinksOf(v.bookGenres, b) =
                                {<<b, g>> : g \in Range(Val(d.genre_ids))}
                          /\ Val(Val(out[r]).value).genres =
                                {<<g, genres[g]>> : g \in Range(Val(d.genre_ids))}
                    /\ d.contributors # None =>
                          /\ ContributorLinksOf(v.bookContributors, b) =
                                {<<b, c[1], c[2]>> : c \in Range(Val(d.contributors))}
                          /\ Val(Val(out[r]).value).contributors =
                                {<<c[1], contributors[c[1]], c[2]>> :
                                    c \in Range(Val(d.contributors))}

C12_Witness ==
    \E r \in Requests :
        /\ Made(r, "update_book") /\ Val(op[r]).id = Some(1)
        /\ Val(op[r]).data.genre_ids = Some(<<>>)
        /\ Val(op[r]).data.contributors = Some(<< <<1, "editor">>, <<1, "author">> >>)
        /\ GenreLinksOf(bookGenres, 1) = {<<1, 1>>, <<1, MaxGenres>>}
        /\ ContributorLinksOf(bookContributors, 1) = {<<1, 1, "author">>}
        /\ GenreLinksOf(View(r).bookGenres, 1) = {}
        /\ Cardinality(ContributorLinksOf(View(r).bookContributors, 1)) = 2
        /\ Val(out[r]).kind = "ok"

\* C13: update_book leaves alone what it was not given: without genre_ids the
\* book's genre links stay, without contributors its contributor links stay,
\* and in every case, at every step of the call, the rows and links of every
\* other book and all genre and contributor rows stay as they were.
C13_UpdateFrame ==
    \A r \in Requests : Running(r, "update_book") =>
        LET b == Val(Val(op[r]).id)
            d == Val(op[r]).data
            v == View(r)
        IN  /\ d.genre_ids = None =>
                  GenreLinksOf(v.bookGenres, b) = GenreLinksOf(bookGenres, b)
            /\ d.contributors = None =>
                  ContributorLinksOf(v.bookContributors, b) =
                      ContributorLinksOf(bookContributors, b)
            /\ DOMAIN v.books = DOMAIN books
            /\ \A b2 \in DOMAIN books \ {b} :
                  /\ v.books[b2] = books[b2]
                  /\ GenreLinksOf(v.bookGenres, b2) = GenreLinksOf(bookGenres, b2)
                  /\ ContributorLinksOf(v.bookContributors, b2) =
                        ContributorLinksOf(bookContributors, b2)
            /\ GenreView(r) = genres
            /\ contributors = SomeContributorTable

C13_Witness ==
    \E r \in Requests :
        /\ Made(r, "update_book") /\ Val(op[r]).id = Some(1)
        /\ Val(op[r]).data.genre_ids = Some(<<1>>)
        /\ Val(op[r]).data.contributors = None
        /\ Val(out[r]).kind = "ok"
        /\ GenreLinksOf(bookGenres, 1) = {<<1, MaxGenres>>}
        /\ ContributorLinksOf(View(r).bookContributors, 1) = {<<1, 1, "author">>}
        /\ GenreLinksOf(View(r).bookGenres, 2) = {<<2, 1>>, <<2, MaxGenres>>}

LinkSteps == {"update_book_genres", "update_book_contributors"}

\* C14: update_book on a book id that does not exist, whatever the request
\* body carries (a body with only genre_ids or only contributors included),
\* fails with the not-found signal before any link delete or link insert is
\* attempted, and changes nothing.
C14_NotFoundFirst ==
    \A r \in Requests :
        (Running(r, "update_book") /\ Val(Val(op[r]).id) \notin DOMAIN books) =>
            /\ Range(Val(op[r]).log) \cap LinkSteps = {}
            /\ pc[r] = "done" => Val(out[r]) = NotFound
            /\ View(r) = [books |-> books, bookGenres |-> bookGenres,
                          bookContributors |-> bookContributors]

\* C15: update_book changes exactly the core fields the body supplies with a
\* non-null value: a field that is absent keeps its stored value, and so does
\* a field supplied as null.
C15_CoreFields ==
    \A r \in Requests :
        (Running(r, "update_book") /\ Val(Val(op[r]).id) \in DOMAIN books) =>
            LET b == Val(Val(op[r]).id)
                d == Val(op[r]).data
                new == View(r).books[b]
                old == books[b]
            IN  /\ new.title = IF d.title.value # None
                               THEN Val(d.title.value) ELSE old.title
                /\ new.rating = IF d.rating.value # None
                                THEN d.rating.value ELSE old.rating
                /\ new.published_year = IF d.published_year.value # None
                                        THEN d.published_year.value
                                        ELSE old.published_year

C15_Witness ==
    \E r \in Requests :
        /\ Made(r, "update_book") /\ Val(op[r]).id = Some(1)
        /\ Val(op[r]).data.title = Null
        /\ Val(op[r]).data.rating = Given(0)
        /\ Val(op[r]).data.published_year = Unset
        /\ 1 \in DOMAIN books /\ books[1] = SeedRow
        /\ View(r).books[1] = [SeedRow EXCEPT !.rating = Some(0)]
        /\ Val(out[r]).kind = "ok"

\* C16: create_book writes the Book row first: at no point does a link row
\* reference the new book id while the Book row does not exist, and the first
\* repository call is the insert of the Book row.  When create_book succeeds
\* the new book's genre links are exactly the supplied genre ids and its
\* contributor links exactly the supplied (contributor id, role) pairs, both
\* empty when nothing is supplied.
C16_CreateBook ==
    \A r \in Requests :
        /\ btx[r] # None =>
              \A l \in View(r).bookGenres \cup View(r).bookContributors :
                  l[1] = NewBookId(r) => NewBookId(r) \in DOMAIN View(r).books
        /\ Running(r, "create_book") =>
              /\ Val(op[r]).log[1] = "create_book"
              /\ NewBookId(r) \in DOMAIN View(r).books
        /\ (Made(r, "create_book") /\ Val(out[r]).kind = "ok") =>
              LET b == NewBookId(r)
                  d == Val(op[r]).data
                  v == View(r)
              IN  /\ GenreLinksOf(v.bookGenres, b) =
                        {<<b, g>> : g \in Range(d.genre_ids)}
                  /\ ContributorLinksOf(v.bookContributors, b) =
                        {<<b, c[1], c[2]>> : c \in Range(d.contributors)}
                  /\ Val(Val(out[r]).value).id = b
                  /\ Val(Val(out[r]).value).genres =
                        {<<g, genres[g]>> : g \in Range(d.genre_ids)}
                  /\ Cardinality(Val(Val(out[r]).value).contributors) =
                        Cardinality(Range(d.contributors))

C16_Witness ==
    \E r \in Requests :
        /\ Made(r, "create_book") /\ Val(out[r]).kind = "ok"
        /\ Val(op[r]).data.genre_ids = <<MaxGenres, 1>>
        /\ Val(op[r]).data.contributors = << <<1, "editor">>, <<1, "author">> >>
        /\ Val(op[r]).log = <<"create_book", "update_book_genres",
                              "update_book_contributors">>
        /\ Cardinality(GenreLinksOf(View(r).bookGenres, NewBookId(r))) = 2
        /\ NewBookId(r) \notin DOMAIN books

Committed ==
    [books |-> books, bookGenres |-> bookGenres, bookContributors |-> bookContributors]

\* C17: delete_book answers true exactly when the book existed and false
\* otherwise, changing nothing then; after a successful delete the book row is
\* gone, no books_genres or books_contributors row references its id, and
\* every genre and contributor row, and everything of the other books, is
\* still there.  delete_genre removes every books_genres row of the genre and
\* leaves the books and their other links in place.
C17_DeleteCascade ==
    \A r \in Requests :
        /\ Made(r, "delete_book") =>
              LET b == Val(Val(op[r]).id)
                  v == View(r)
              IN  IF b \in DOMAIN books
                  THEN /\ Val(out[r]) = Deleted
                       /\ v.books = Without(books, b)
                       /\ v.bookGenres = bookGenres \ GenreLinksOf(bookGenres, b)
                       /\ v.bookContributors =
                             bookContributors \ ContributorLinksOf(bookContributors, b)
                       /\ GenreView(r) = genres
                       /\ contributors = SomeContributorTable
                  ELSE Val(out[r]) = NotFound /\ v = Committed /\ GenreView(r) = genres
        /\ Made(r, "delete_genre") =>
              LET g == Val(Val(op[r]).id)
                  v == View(r)
              IN  IF g \in DOMAIN genres
                  THEN /\ Val(out[r]) = Deleted
                       /\ GenreView(r) = Without(genres, g)
                       /\ v.bookGenres = {l \in bookGenres : l[2] # g}
                       /\ v.books = books
                       /\ v.bookContributors = bookContributors
                  ELSE Val(out[r]) = NotFound /\ v = Committed /\ GenreView(r) = genres

C17_Witness ==
    \E r \in Requests :
        /\ Made(r, "delete_book") /\ Val(op[r]).id = Some(1)
        /\ Val(out[r]) = Deleted
        /\ GenreLinksOf(bookGenres, 1) # {}
        /\ ContributorLinksOf(bookContributors, 1) # {}
        /\ GenreLinksOf(bookGenres, 2) # {}
        /\ 1 \notin DOMAIN View(r).books /\ 2 \in DOMAIN View(r).books
        /\ ContributorLinksOf(View(r).bookContributors, 1) = {}

\* request r made a create_book / update_book call that raised partway
FailedPartway(r) ==
    /\ pc[r] = "done"
    /\ Val(op[r]).call \in {"create_book", "update_book"}
    /\ Val(out[r]) = IntegrityError

\* C18: a book write is all-or-nothing: when create_book or update_book fails
\* partway (a link names a genre or contributor that does not exist, or the
\* same link twice), the end of the request leaves every table as it was
\* before the request, so later reads see no new book, no changed field and
\* the previous link sets.
C18_AllOrNothing ==
    [][\A r \in Requests :
          (FailedPartway(r) /\ pc'[r] = "idle") =>
              /\ books' = books /\ bookGenres' = bookGenres
              /\ bookContributors' = bookContributors
              /\ genres' = genres /\ contributors' = contributors]_vars

C18_Witness ==
    \E r \in Requests :
        /\ FailedPartway(r)
        /\ Val(op[r]).call = "update_book" /\ Val(op[r]).id = Some(1)
        /\ Val(op[r]).data.genre_ids = Some(<<NoSuchGenre>>)
        /\ 1 \in DOMAIN books /\ View(r).books[1] # books[1]
        /\ GenreLinksOf(bookGenres, 1) # {}
        /\ GenreLinksOf(View(r).bookGenres, 1) = {}

WriteCalls ==
    {"create_genre", "delete_genre", "create_book", "update_book", "delete_book"}

\* request r made a write call that returned success
Succeeded(r) ==
    /\ pc[r] = "done"
    /\ Val(op[r]).call \in WriteCalls
    /\ Val(out[r]).kind \in {"ok", "Deleted"}

\* C19: what a create, update or delete that returned success has written is
\* in the store when its request ends, so that every later request, on its
\* own session, sees it: a genre created by a successful create_genre is
\* there for the Conflict check of a later create_genre, and the links
\* written by a successful update_book are there for a later get_book_by_id.
C19_Durable ==
    [][\A r \in Requests :
          (Succeeded(r) /\ pc'[r] = "idle") =>
              /\ genres' = GenreView(r)
              /\ books' = View(r).books
              /\ bookGenres' = View(r).bookGenres
              /\ bookContributors' = View(r).bookContributors]_vars

\* C20: every item that get_books_list returns, in each book-listing service
\* of the repository, equals what get_book_by_id answers for the same id on
\* the same store: the same core fields, the same set of (id, name) genres
\* and the same set of (contributor, role) pairs.
C20_ListItemsHydrated ==
    \A r \in Requests : Made(r, "get_books_list") =>
        LET items == Val(Val(out[r]).value) IN
        \A i \in 1..Len(items) :
            Ok(items[i]) = GetBookById(View(r), GenreView(r), items[i].id)

ReadCalls == {"get_book_by_id", "get_books_list", "get_genre_by_id", "get_genres_list"}

\* C21: reads are pure: a get_book_by_id, get_books_list, get_genre_by_id or
\* get_genres_list call writes no row in its session, and the end of its
\* request changes no table; what get_book_by_id answers is a function of the
\* tables alone, so two fetches of a book with no write in between answer
\* the same.
C21_ReadsPure ==
    [][\A r \in Requests :
          /\ (pc[r] = "open" /\ pc'[r] = "done" /\ Val(op'[r]).call \in ReadCalls) =>
                /\ btx'[r] = btx[r] /\ tx'[r] = tx[r]
                /\ View(r) = Committed /\ GenreView(r) = genres
                /\ books' = books /\ genres' = genres /\ contributors' = contributors
                /\ bookGenres' = bookGenres /\ bookContributors' = bookContributors
                /\ Val(op'[r]).call = "get_book_by_id" =>
                      Val(out'[r]) = GetBookById(Committed, genres, Val(Val(op'[r]).id))
          /\ (pc[r] = "done" /\ Val(op[r]).call \in ReadCalls /\ pc'[r] = "idle") =>
                /\ books' = books /\ genres' = genres /\ contributors' = contributors
                /\ bookGenres' = bookGenres /\ bookContributors' = bookContributors]_vars

C21_Witness ==
    \E r \in Requests :
        /\ Made(r, "get_book_by_id") /\ Val(op[r]).id = Some(1)
        /\ Val(out[r]).kind = "ok"
        /\ Val(Val(out[r]).value).genres = {<<1, genres[1]>>}
        /\ Cardinality(Val(Val(out[r]).value).contributors) = 1
        /\ View(r) = Committed

(***************************************************************************)
(* Concurrent requests: the service calls taken statement by statement.    *)
(* Every awaited statement is a step, requests run on sessions of their    *)
(* own, and a statement that needs a row or index entry which another open *)
(* session has written and not committed waits for that session to end.    *)
(***************************************************************************)
\* GenreService.create_genre up to the pre-check get_genre_by_name
CreateGenreCheck(r, name) ==
    /\ pc[r] = "open"
    /\ op' = [op EXCEPT ![r] = Some([call |-> "create_genre", id |-> None,
                                     name |-> Some(name), set |-> TRUE])]
    /\ IF GetGenreByName(GenreView(r), name) # {}
       THEN /\ out' = [out EXCEPT ![r] = Some(Conflict(name))]
            /\ pc' = [pc EXCEPT ![r] = "done"]
       ELSE /\ out' = out
            /\ pc' = [pc EXCEPT ![r] = "flush"]
    /\ UNCHANGED <<store, listVars, tx, btx>>

\* repository.create_genre: session.add(genre); flush.  The INSERT waits
\* while another open session holds the name uncommitted; then the unique
\* index rejects it if a committed row holds the name, and accepts it if not.
CreateGenreFlush(r) ==
    /\ pc[r] \in {"flush", "waiting"}
    /\ LET name == Val(Val(op[r]).name) IN
       IF MustWait(r, name)
       THEN /\ pc[r] = "flush"
            /\ pc' = [pc EXCEPT ![r] = "waiting"]
            /\ UNCHANGED <<tx, out>>
       ELSE IF GetGenreByName(genres, name) # {} \/ GetGenreByName(GenreView(r), name) # {}
       THEN /\ out' = [out EXCEPT ![r] = Some(IntegrityError)]
            /\ pc' = [pc EXCEPT ![r] = "done"]
            /\ tx' = tx
       ELSE /\ tx' = [tx EXCEPT ![r] = Some(Extend(GenreView(r), NewGenreId(r), name))]
            /\ out' = [out EXCEPT ![r] = Some(GenreResponse(NewGenreId(r), name))]
            /\ pc' = [pc EXCEPT ![r] = "done"]
    /\ UNCHANGED <<store, listVars, btx, op>>

\* the rows of book b in a link table that another open session has deleted
\* and not committed are locked: a DELETE of them waits for that session
LinkDeleteWaits(r, committed, field, b) ==
    \E r2 \in Requests \ {r} :
        /\ btx[r2] # None
        /\ \E l \in committed : l[1] = b /\ l \notin View(r2)[field]

\* a link row that another open session has inserted and not committed holds
\* its primary-key entry: an INSERT of the same key waits for that session
LinkInsertWaits(r, committed, field, rows) ==
    \E r2 \in Requests \ {r} :
        /\ btx[r2] # None
        /\ \E l \in rows : l \in View(r2)[field] /\ l \notin committed

\* update_book_genres: execute(delete(BookGenre).where(book_id == book_id))
ClearBookGenres(r) ==
    /\ pc[r] = "genres"
    /\ ~LinkDeleteWaits(r, bookGenres, "bookGenres", Target(r))
    /\ op' = [op EXCEPT ![r] =
                 Some([Val(op[r]) EXCEPT !.log = Append(@, "update_book_genres")])]
    /\ btx' = [btx EXCEPT ![r] =
                  Some([View(r) EXCEPT !.bookGenres = {l \in @ : l[1] # Target(r)}])]
    /\ pc' = [pc EXCEPT ![r] = "genres_add"]
    /\ UNCHANGED <<store, listVars, tx, out>>

\* update_book_genres: session.add(BookGenre(...)) for each id; flush
AddBookGenres(r) ==
    /\ pc[r] = "genres_add"
    /\ LET o == Val(op[r])
           b == Target(r)
           ids == GenreIdList(o)
           rows == {<<b, ids[i]>> : i \in 1..Len(ids)}
           ok == GenreLinksAccepted(View(r), GenreView(r), b, ids)
       IN  /\ ok => ~LinkInsertWaits(r, bookGenres, "bookGenres", rows)
           /\ btx' = IF ok
                     THEN [btx EXCEPT ![r] =
                             Some([View(r) EXCEPT !.bookGenres = @ \cup rows])]
                     ELSE btx
           /\ out' = IF ok THEN out ELSE [out EXCEPT ![r] = Some(IntegrityError)]
           /\ pc' = [pc EXCEPT ![r] = IF ok THEN After(o, "genres") ELSE "done"]
    /\ UNCHANGED <<store, listVars, tx, op>>

\* update_book_contributors: execute(delete(BookContributor).where(...))
ClearBookContributors(r) ==
    /\ pc[r] = "contributors"
    /\ ~LinkDeleteWaits(r, bookContributors, "bookContributors", Target(r))
    /\ op' = [op EXCEPT ![r] =
                 Some([Val(op[r]) EXCEPT !.log = Append(@, "update_book_contributors")])]
    /\ btx' = [btx EXCEPT ![r] =
                  Some([View(r) EXCEPT !.bookContributors = {l \in @ : l[1] # Target(r)}])]
    /\ pc' = [pc EXCEPT ![r] = "contributors_add"]
    /\ UNCHANGED <<store, listVars, tx, out>>

\* update_book_contributors: session.add(BookContributor(...)) for each; flush
AddBookContributors(r) ==
    /\ pc[r] = "contributors_add"
    /\ LET o == Val(op[r])
           b == Target(r)
           cs == ContributorList(o)
           rows == {<<b, cs[i][1], cs[i][2]>> : i \in 1..Len(cs)}
           ok == ContributorLinksAccepted(View(r), b, cs)
       IN  /\ ok => ~LinkInsertWaits(r, bookContributors, "bookContributors", rows)
           /\ btx' = IF ok
                     THEN [btx EXCEPT ![r] =
                             Some([View(r) EXCEPT !.bookContributors = @ \cup rows])]
                     ELSE btx
           /\ out' = IF ok THEN out ELSE [out EXCEPT ![r] = Some(IntegrityError)]
           /\ pc' = [pc EXCEPT ![r] = IF ok THEN After(o, "contributors") ELSE "done"]
    /\ UNCHANGED <<store, listVars, tx, op>>

\* bodies of the concurrent update_book requests: link lists only
RaceUpdates ==
    [title : {Unset}, rating : {Unset}, published_year : {Unset},
     genre_ids : {None, Some(<<1>>), Some(<<MaxGenres>>), Some(<<MaxGenres, 1>>)},
     contributors : {None, Some(<< <<1, "editor">> >>), Some(<< <<1, "illustrator">> >>)}]

\* the book the concurrent requests work on
RaceBooks == {1}

InitRace ==
    /\ genres = SomeGenreTable
    /\ contributors = SomeContributorTable
    /\ books = [b \in BookIds |-> SeedRow]
    /\ bookGenres \in SUBSET (RaceBooks \X GenreIds)
    /\ bookContributors \in SUBSET (RaceBooks \X ContributorIds \X {"author"})
    /\ call = None /\ resp = None /\ enum = None
    /\ InitWrites

NextRace ==
    \E r \in Requests :
        \/ OpenSession(r)
        \/ \E name \in GenreNames : CreateGenreCheck(r, name)
        \/ CreateGenreFlush(r)
        \/ \E b \in RaceBooks, data \in RaceUpdates : UpdateBook(r, b, data)
        \/ ClearBookGenres(r)
        \/ AddBookGenres(r)
        \/ ClearBookContributors(r)
        \/ AddBookContributors(r)
        \/ ReadBack(r)
        \/ \E b \in RaceBooks : GetBook(r, b)
        \/ ListBooks(r, "app.backend.books")
        \/ CloseSession(r)

SpecRace == InitRace /\ [][NextRace]_vars

(***************************************************************************)
(* Properties of concurrent requests                                       *)
(***************************************************************************)
\* C22: two concurrent create_genre requests with the same new name can both
\* pass the pre-check; the one whose INSERT then finds the name held by the
\* other (and waits for it) is the loser, and it fails through the store's
\* unique constraint, not with the Conflict of the pre-check: at most one of
\* the two inserts succeeds.
C22_RaceLoserFails ==
    [][\A r \in Requests :
          (pc[r] = "waiting" /\ pc'[r] = "done") =>
              Val(out'[r]) = IntegrityError]_vars

\* the genres / contributors a response shows for a set of link rows
ShownGenres(ids) == {<<g, genres[g]>> : g \in ids}
ShownContributors(pairs) == {<<c[1], contributors[c[1]], c[2]>> : c \in pairs}

\* the complete link sets of book b that a read may show: the committed one,
\* or the one a concurrent update_book on b is writing
GenreSetsOf(b) ==
    {ShownGenres({l[2] : l \in GenreLinksOf(bookGenres, b)})}
    \cup {ShownGenres(Range(GenreIdList(Val(op[w])))) :
            w \in {x \in Requests : /\ Running(x, "update_book")
                                    /\ Val(op[x]).id = Some(b)
                                    /\ GenresDue(Val(op[x]))}}
ContributorSetsOf(b) ==
    {ShownContributors({<<l[2], l[3]>> : l \in ContributorLinksOf(bookContributors, b)})}
    \cup {ShownContributors(Range(ContributorList(Val(op[w])))) :
            w \in {x \in Requests : /\ Running(x, "update_book")
                                    /\ Val(op[x]).id = Some(b)
                                    /\ ContributorsDue(Val(op[x]))}}

\* C23: while update_book replaces the link set of a book, every concurrent
\* read that fetches the book's links (get_book_by_id, or get_books_list of
\* the hydrating service) shows the complete old set or the complete new
\* set, never an empty or partly written one.
C23_NoPartialRead ==
    \A r \in Requests :
        /\ (Made(r, "get_book_by_id") /\ Val(out[r]).kind = "ok") =>
              LET item == Val(Val(out[r]).value) IN
              /\ item.genres \in GenreSetsOf(item.id)
              /\ item.contributors \in ContributorSetsOf(item.id)
        /\ (Made(r, "get_books_list") /\ Val(op[r]).service = "app.backend.books") =>
              LET items == Val(Val(out[r]).value) IN
              \A i \in 1..Len(items) :
                  /\ items[i].genres \in GenreSetsOf(items[i].id)
                  /\ items[i].contributors \in ContributorSetsOf(items[i].id)

C23_Witness ==
    \E r, w \in Requests :
        /\ Made(r, "get_book_by_id") /\ Val(op[r]).id = Some(1)
        /\ Running(w, "update_book") /\ Val(op[w]).id = Some(1)
        /\ pc[w] = "genres_add"
        /\ Val(op[w]).data.genre_ids = Some(<<1>>)
        /\ GenreLinksOf(bookGenres, 1) = {<<1, MaxGenres>>}
        /\ GenreLinksOf(View(w).bookGenres, 1) = {}
        /\ Val(Val(out[r]).value).genres = ShownGenres({MaxGenres})

\* request r made an update_book call on book b that returned the book
UpdatedOk(r, b) ==
    /\ Made(r, "update_book") /\ Val(op[r]).id = Some(b)
    /\ Val(out[r]).kind = "ok"

\* C24: when two update_book requests on the same book run concurrently, one
\* with genre list A and one with genre list B, and both succeed, the book's
\* genre links in the store are exactly A or exactly B once the first of them
\* has ended (and so at the end of both), never a union or another mixture;
\* the same for their contributor lists.
C24_ReplaceNotMerge ==
    [][\A r1, r2 \in Requests : \A b \in DOMAIN books :
          (r1 # r2 /\ UpdatedOk(r1, b) /\ UpdatedOk(r2, b) /\ pc'[r1] = "idle") =>
              LET o1 == Val(op[r1])
                  o2 == Val(op[r2])
              IN  /\ (GenresDue(o1) /\ GenresDue(o2)) =>
                        GenreLinksOf(bookGenres', b) \in
                            {{<<b, g>> : g \in Range(GenreIdList(o1))},
                             {<<b, g>> : g \in Range(GenreIdList(o2))}}
                  /\ (ContributorsDue(o1) /\ ContributorsDue(o2)) =>
                        ContributorLinksOf(bookContributors', b) \in
                            {{<<b, c[1], c[2]>> : c \in Range(ContributorList(o1))},
                             {<<b, c[1], c[2]>> : c \in Range(ContributorList(o2))}}]_vars

\* every link row references rows of the given tables
Referential(bs, gs, bg, bc) ==
    /\ \A l \in bg : l[1] \in DOMAIN bs /\ l[2] \in DOMAIN gs
    /\ \A l \in bc : l[1] \in DOMAIN bs /\ l[2] \in DOMAIN contributors

\* C25: in every state a request can see (the committed tables and the view of
\* every open session, after any sequence of create, update and delete calls on
\* books and genres) every BookGenre row references an existing book and an
\* existing genre, and every BookContributor row an existing book and an
\* existing contributor.
C25_ReferentialIntegrity ==
    /\ Referential(books, genres, bookGenres, bookContributors)
    /\ \A r \in Requests :
          btx[r] # None =>
              Referential(View(r).books, GenreView(r),
                          View(r).bookGenres, View(r).bookContributors)
\* a session has deleted a genre that a book was linked to; the book has
\* contributor links too, and in the session's view only the genre link is gone
C25_Witness ==
    \E r \in Requests :
        /\ Made(r, "delete_genre") /\ Val(out[r]) = Deleted
        /\ \E l \in bookGenres :
              /\ l[2] = Val(Val(op[r]).id)
              /\ l \notin View(r).bookGenres
              /\ ContributorLinksOf(View(r).bookContributors, l[1]) # {}

\* request r has run the repository step `step` of a book write
Stepped(r, step) ==
    /\ op[r] # None
    /\ Val(op[r]).call \in {"create_book", "update_book"}
    /\ step \in Range(Val(op[r]).log)
\* ... and the flush of that step raised
Raised(r, step) ==
    /\ out[r] = Some(IntegrityError)
    /\ Val(op[r]).log[Len(Val(op[r]).log)] = step

\* C26: a book never has two link rows for the same genre nor for the same
\* (contributor, role).  A link write whose rows reference existing rows is
\* accepted exactly when its rows are pairwise different, one contributor with
\* several roles included; an accepted write leaves one row per list entry and
\* a refused one (the same genre id twice, the same (contributor, role) twice)
\* leaves the book without rows of that kind.
C26_LinkIdentity ==
    \A r \in Requests :
        /\ Stepped(r, "update_book_genres") =>
              LET b == Target(r)
                  ids == GenreIdList(Val(op[r]))
                  rows == GenreLinkRows(b, ids)
                  mine == GenreLinksOf(View(r).bookGenres, b)
                  known == b \in DOMAIN View(r).books
                               /\ Range(ids) \subseteq DOMAIN GenreView(r)
              IN  /\ known => (Raised(r, "update_book_genres") <=> ~Distinct(rows))
                  /\ IF Raised(r, "update_book_genres") THEN mine = {}
                     ELSE mine = Range(rows) /\ Cardinality(mine) = Len(rows)
        /\ Stepped(r, "update_book_contributors") =>
              LET b == Target(r)
                  cs == ContributorList(Val(op[r]))
                  rows == ContributorLinkRows(b, cs)
                  mine == ContributorLinksOf(View(r).bookContributors, b)
                  known == b \in DOMAIN View(r).books
                               /\ \A i \in 1..Len(cs) : cs[i][1] \in DOMAIN contributors
              IN  /\ known => (Raised(r, "update_book_contributors") <=> ~Distinct(rows))
                  /\ IF Raised(r, "update_book_contributors") THEN mine = {}
                     ELSE mine = Range(rows) /\ Cardinality(mine) = Len(rows)
\* a write whose contributor list names the same (contributor, role) twice was
\* refused after its two genre links were written
C26_Witness ==
    \E r \in Requests :
        /\ Stepped(r, "update_book_genres")
        /\ Cardinality(GenreLinksOf(View(r).bookGenres, Target(r))) = 2
        /\ Stepped(r, "update_book_contributors")
        /\ Raised(r, "update_book_contributors")
        /\ ContributorList(Val(op[r])) = << <<1, "author">>, <<1, "author">> >>
        /\ ContributorLinksOf(View(r).bookContributors, Target(r)) = {}

(***************************************************************************)
(* Genre listing                                                           *)
(***************************************************************************)
\* the genres a genre listing asks for: every genre when q is absent, else
\* those whose name contains q somewhere, letter case ignored
WantedGenres(p) ==
    {g \in DOMAIN genres :
        p.q # None => Contains(LowerStr(genres[g]), LowerStr(Val(p.q)))}
\* genre ids in strictly ascending order of their names
NameAscending(items) ==
    \A i, j \in 1..Len(items) : i < j => StrLess(genres[items[i]], genres[items[j]])

\* C27: get_genres_list returns only genres whose name contains q (any genre
\* when q is absent) in ascending order of name, and walking the pages
\* 1..ceil(total/page_size) returns every matching genre exactly once, in
\* ascending order of name over the whole walk.
C27_GenreWalkOnce ==
    /\ (IsGenreCall /\ Val(resp).status = "ok") =>
          /\ Range(Val(resp).items) \subseteq WantedGenres(Val(call).p)
          /\ NameAscending(Val(resp).items)
          /\ Val(resp).total = Cardinality(WantedGenres(Val(call).p))
    /\ (IsGenreCall /\ enum # None /\ Val(enum).done) =>
          /\ \A g \in DOMAIN genres :
                Occurrences(g, Val(enum).seen) =
                    IF g \in WantedGenres(Val(call).p) THEN 1 ELSE 0
          /\ NameAscending(Val(enum).seen)
C27_Witness ==
    /\ IsGenreCall /\ enum # None /\ Val(enum).done
    /\ Val(call).p.q # None
    /\ Val(enum).pages = 2 /\ Val(call).p.page_size = 1
    /\ Len(Val(enum).seen) = 2

====
